---- MODULE Spec2Model ----
(***************************************************************************)
(* Model of sodatte (src/src/main.rs): a terminal dashboard that, on every *)
(* tick of a 30 s interval, fetches one price per configured asset on      *)
(* concurrently spawned tasks, joins them, draws a table, and then polls   *)
(* the terminal once for a quit key.                                       *)
(*                                                                         *)
(* Prices and quantities are modelled as integers; 0 stands for 0.0.       *)
(***************************************************************************)
EXTENDS Integers, Sequences, FiniteSets, TLC

(* ------------------------------ bounds --------------------------------- *)
MaxAssets == 2      \* longest descriptor list drawn in Init
MaxTicks  == 2      \* timer ticks explored
MaxEvents == 2      \* terminal events that arrive during a run
MaxWait   == 2      \* poll windows of idle time explored while awaiting a tick

(* ------------------------- program constants --------------------------- *)
TickPeriodMs == 30000
PollWindowMs == 100

(* --------------------------- data model -------------------------------- *)
\* AssetConfig values the configuration file may hold.
AssetUniverse ==
    { [kind |-> "Stock",  symbol |-> "ABC", quantity |-> 10, api |-> "none"],
      [kind |-> "Crypto", symbol |-> "XYZ", quantity |-> 2,  api |-> "none"] }

RECURSIVE SeqsUpTo(_, _)
SeqsUpTo(S, n) ==
    IF n = 0 THEN { <<>> }
    ELSE LET shorter == SeqsUpTo(S, n - 1)
         IN  shorter \cup { Append(s, x) : s \in { t \in shorter : Len(t) = n - 1 }, x \in S }

\* Portfolio.assets as load_config may return it.
Portfolios == SeqsUpTo(AssetUniverse, MaxAssets)

\* What the HTTP exchange of one fetch can produce: a transport/status
\* failure ("error"), a flat body {"price": price}, a nested CoinMarketCap
\* body {"data": {sym: {"quote": {"USD": {"price": quote}}}}}, a body with
\* both members ("both"), or one of the two with a price that is no number
\* ("flat_text", "nested_text").
Body(shape, sym, price, quote) ==
    [shape |-> shape, sym |-> sym, price |-> price, quote |-> quote]

\* the responses the endpoints give during a run of the dashboard
Responses ==
    { Body("error", "", 0, 0),
      Body("flat", "", 5, 0),
      Body("nested", "XYZ", 0, 100) }

NoResponse == Body("pending", "", 0, 0)

\* Result<f64>
Ok(v) == [ok |-> TRUE, val |-> v]
Err   == [ok |-> FALSE, val |-> 0]

\* Terminal events crossterm can deliver: Key(q), Key(Esc), another key
\* ("x"), and an event that is no Key at all ("mouse": mouse capture is on;
\* a resize takes the same branch).
Events == {"q", "esc", "x", "mouse"}

VARIABLES
    pc,           \* position of main
    cfg,          \* descriptor list returned by load_config
    tasks,        \* the spawned fetch tasks of the latest refresh, by index
    arrival,      \* history: indices of the tasks of the current refresh in
                  \* the order they completed, kept in runs that track history
    rows,         \* the snapshot last returned by refresh_portfolio
    frame,        \* table body last drawn
    events,       \* terminal input queue
    arrived,      \* number of events that have arrived so far
    rawMode,      \* terminal is in raw mode
    altScreen,    \* terminal is in the alternate screen
    setup,        \* "not_begun", "failed" or "ok"
    restoreCalls, \* number of calls of restore_terminal
    exitStatus,   \* "running", "ok" or "err"
    quit,         \* a quit key has been observed (the loop was left by break)
    tickCount,    \* timer ticks the loop has received
    refreshCount, \* calls of refresh_portfolio
    drawCount,    \* calls of term.draw
    pollCount,    \* calls of event::poll
    waited,       \* poll windows elapsed while blocked in ticker.tick()
    quitInFlight, \* a quit key arrived while a fetch of the tick was running
    probe,        \* one call of fetch_price on its own: input and result
    qstamp,       \* history of the first quit key that entered the input
                  \* queue behind k events: owed is k + 1 less the ticks
                  \* received since then (not below 0)
    prev          \* history: the previous call of refresh_portfolio (the
                  \* responses, the completion order and the snapshot), kept
                  \* only in runs that track it

vars == << pc, cfg, tasks, arrival, rows, frame, events, arrived, rawMode,
           altScreen, setup, restoreCalls, exitStatus, quit, tickCount,
           refreshCount, drawCount, pollCount, waited, quitInFlight,
           probe, qstamp, prev >>

termVars  == << rawMode, altScreen, setup, restoreCalls >>
countVars == << tickCount, refreshCount, drawCount, pollCount >>

\* variant: Esc is not handled
IsQuitKeyOnlyQ(ev) == ev = "q"

\* variant: every Key event quits
IsQuitKeyAnyKey(ev) == ev # "mouse"

\* key.code == KeyCode::Char('q') || key.code == KeyCode::Esc, for a Key event
IsQuitKey(ev) == ev = "q" \/ ev = "esc"

(* ---------------------------- fetch_price ------------------------------ *)
\* the endpoint: the override if there is one, else the template of the kind
ResolveUrl(a) ==
    IF a.api # "none" THEN a.api
    ELSE IF a.kind = "Stock" THEN "https://example.com/stock/" \o a.symbol
    ELSE IF a.kind = "Crypto"
         THEN "https://pro-api.coinmarketcap.com/v1/cryptocurrency/quotes/latest?symbol="
              \o a.symbol
    ELSE "https://example.com/commodity/" \o a.symbol

\* variant: the decoder is picked by the shape of the body
fetch_price_sniff(a, resp) ==
    IF resp.shape \in {"flat", "both"} THEN Ok(resp.price)
    ELSE IF resp.shape = "nested" /\ resp.sym = a.symbol THEN Ok(resp.quote)
    ELSE Err

\* The decode path is chosen by a.kind: CmcResponse (data[symbol].quote.USD
\* .price) for Crypto, Resp {price} otherwise; a body the chosen path cannot
\* decode is an error. Unknown members of a body are ignored.
fetch_price(a, resp) ==
    IF resp.shape = "error" THEN Err
    ELSE IF a.kind = "Crypto"
         THEN IF resp.shape \in {"nested", "both"} /\ resp.sym = a.symbol
              THEN Ok(resp.quote) ELSE Err
         ELSE IF resp.shape \in {"flat", "both"} THEN Ok(resp.price) ELSE Err

\* variant: a failure yields -1.0 instead of the given default
unwrap_or_sentinel(r, d) == IF r.ok THEN r.val ELSE 0 - 1

unwrap_or(r, d) == IF r.ok THEN r.val ELSE d

(* -------------------------- refresh_portfolio -------------------------- *)
\* task::spawn(async move { ... }) for one descriptor
\* (sent counts the requests the task has issued with client.get(url).send())
SpawnTask(asset) ==
    [asset |-> asset, state |-> "running", resp |-> NoResponse, price |-> 0,
     sent |-> 0]

\* variant: a failed request is tried once more before the task gives up
TaskOutputRetry(t, resp) ==
    IF ~fetch_price(t.asset, resp).ok /\ t.sent = 0
    THEN [t EXCEPT !.sent = 1]
    ELSE [t EXCEPT !.state = "done", !.resp = resp, !.sent = t.sent + 1,
                   !.price = unwrap_or(fetch_price(t.asset, resp), 0)]

\* the body of the spawned task once its HTTP exchange produced resp
TaskOutput(t, resp) ==
    [t EXCEPT !.state = "done", !.resp = resp, !.sent = t.sent + 1,
              !.price = unwrap_or(fetch_price(t.asset, resp), 0)]

IsDone(t) == t.state = "done"

\* variant: the join resolves as soon as one handle has resolved
JoinReadyAny(ts) == ts = <<>> \/ \E i \in 1..Len(ts) : IsDone(ts[i])

\* variant: the join also resolves when a quit key is waiting in the queue
JoinReadyOrQuit(ts) ==
    \/ \A i \in 1..Len(ts) : IsDone(ts[i])
    \/ \E k \in 1..Len(events) : IsQuitKey(events[k])

\* variant: the join gives up waiting (a timeout around the barrier)
JoinReadyTimeout(ts) == TRUE

\* join_all resolves when every handle has resolved
JoinReady(ts) == \A i \in 1..Len(ts) : IsDone(ts[i])

RowOf(t) == [asset |-> t.asset, price |-> t.price]

RECURSIVE MapRows(_)
MapRows(ts) ==
    IF ts = <<>> THEN <<>> ELSE <<RowOf(Head(ts))>> \o MapRows(Tail(ts))

TaskFailed(t) == ~fetch_price(t.asset, t.resp).ok

\* variant: rows of failed fetches are dropped
CollectOkOnly(ts, arr) ==
    MapRows(SelectSeq(ts, LAMBDA t : IsDone(t) /\ ~TaskFailed(t)))

\* variant: outputs are collected in completion order
CollectByArrival(ts, arr) ==
    [k \in 1..Len(arr) |-> RowOf(ts[arr[k]])]

\* variant: a failed fetch keeps the price of the previous snapshot
CollectWithCache(ts, arr) ==
    [i \in 1..Len(ts) |->
        IF TaskFailed(ts[i]) /\ prev.tracked /\ prev.has
        THEN prev.rows[i] ELSE RowOf(ts[i])]

\* join_all(..).await.into_iter().map(expect).collect(): the outputs of the
\* resolved handles, in the order of the handles
Collect(ts, arr) == MapRows(SelectSeq(ts, IsDone))

(* ------------------------------- draw_ui ------------------------------- *)
BodyRow(r) ==
    [kind |-> r.asset.kind, symbol |-> r.asset.symbol,
     quantity |-> r.asset.quantity, price |-> r.price,
     value |-> r.price * r.asset.quantity]

\* variant: rows without a price are left out of the table
draw_ui_priced_only(rs) ==
    LET shown == SelectSeq(rs, LAMBDA r : r.price # 0)
    IN  [i \in 1..Len(shown) |-> BodyRow(shown[i])]

\* Table::new(body, widths): one Row per element of rows, in order
draw_ui(rs) == [i \in 1..Len(rs) |-> BodyRow(rs[i])]

(* -------------------------------- main --------------------------------- *)
ProgramStart ==
    /\ pc = "load"
    /\ cfg = <<>>
    /\ tasks = <<>>
    /\ arrival = <<>>
    /\ rows = <<>>
    /\ frame = <<>>
    /\ events = <<>>
    /\ arrived = 0
    /\ rawMode = FALSE
    /\ altScreen = FALSE
    /\ setup = "not_begun"
    /\ restoreCalls = 0
    /\ exitStatus = "running"
    /\ quit = FALSE
    /\ tickCount = 0
    /\ refreshCount = 0
    /\ drawCount = 0
    /\ pollCount = 0
    /\ waited = 0
    /\ quitInFlight = FALSE
    /\ qstamp = [has |-> FALSE, owed |-> 0]

NoProbe == [state |-> "none"]

Untracked == [tracked |-> FALSE]

\* history of a run that has not called refresh_portfolio yet
NoCallYet ==
    [tracked |-> TRUE, has |-> FALSE, resps |-> <<>>, order |-> <<>>,
     rows |-> <<>>]

\* the call of refresh_portfolio of the iteration that ends, as history
CallRecord ==
    [tracked |-> TRUE, has |-> TRUE,
     resps |-> [i \in 1..Len(tasks) |-> tasks[i].resp],
     order |-> arrival, rows |-> rows]

Init ==
    /\ ProgramStart
    /\ probe = NoProbe
    /\ prev = Untracked

\* the `?` operator: return Err from main
ExitErr ==
    /\ pc' = "exit"
    /\ exitStatus' = "err"

\* load_config("portfolio.toml").await? and Client::builder().build()?
LoadConfig ==
    /\ pc = "load"
    /\ \/ /\ \E p \in Portfolios : cfg' = p
          /\ pc' = "setup"
          /\ UNCHANGED exitStatus
       \/ /\ ExitErr
          /\ UNCHANGED cfg
    /\ UNCHANGED << tasks, arrival, rows, frame, events, arrived, termVars,
                    quit, countVars, waited, quitInFlight,
                    probe, qstamp, prev >>

\* setup_terminal()?: failAt names the step that fails (0: none)
SetupTerminal ==
    /\ pc = "setup"
    /\ \E failAt \in 0..3 :
         /\ \/ /\ failAt = 1
               /\ UNCHANGED << rawMode, altScreen >>
            \/ /\ failAt = 2
               /\ rawMode' = TRUE
               /\ altScreen' \in BOOLEAN
            \/ /\ failAt \in {0, 3}
               /\ rawMode' = TRUE
               /\ altScreen' = TRUE
         /\ IF failAt = 0
            THEN /\ setup' = "ok"
                 /\ pc' = "tick"
                 /\ UNCHANGED exitStatus
            ELSE /\ setup' = "failed"
                 /\ ExitErr
    /\ UNCHANGED << cfg, tasks, arrival, rows, frame, events, arrived,
                    restoreCalls, quit, countVars, waited, quitInFlight,
                    probe, qstamp, prev >>

\* time passes while main is blocked in ticker.tick().await; the first tick
\* of a tokio interval completes immediately
TimePasses ==
    /\ pc = "tick"
    /\ tickCount > 0
    /\ waited < MaxWait
    /\ (waited + 1) * PollWindowMs <= TickPeriodMs
    /\ waited' = waited + 1
    /\ UNCHANGED << pc, cfg, tasks, arrival, rows, frame, events, arrived,
                    termVars, exitStatus, quit, countVars, quitInFlight,
                    probe, qstamp, prev >>

\* ticker.tick().await completes
TimerTick ==
    /\ pc = "tick"
    /\ tickCount < MaxTicks
    /\ tickCount' = tickCount + 1
    /\ waited' = 0
    /\ qstamp' = IF qstamp.owed > 0
                 THEN [qstamp EXCEPT !.owed = qstamp.owed - 1] ELSE qstamp
    /\ pc' = "refresh"
    /\ UNCHANGED << cfg, tasks, arrival, rows, frame, events, arrived,
                    termVars, exitStatus, quit, refreshCount, drawCount,
                    pollCount, quitInFlight,
                    probe, prev >>

\* refresh_portfolio: one task is spawned per descriptor
Spawn ==
    /\ pc = "refresh"
    /\ tasks' = [i \in 1..Len(cfg) |-> SpawnTask(cfg[i])]
    /\ arrival' = <<>>
    /\ refreshCount' = refreshCount + 1
    /\ quitInFlight' = FALSE
    /\ pc' = "join"
    /\ UNCHANGED << cfg, rows, frame, events, arrived, termVars, exitStatus,
                    quit, tickCount, drawCount, pollCount, waited,
                    probe, qstamp, prev >>

\* a spawned task runs fetch_price to its end
TaskComplete ==
    /\ \E i \in 1..Len(tasks) : \E resp \in Responses :
         /\ tasks[i].state = "running"
         /\ tasks' = [tasks EXCEPT ![i] = TaskOutput(tasks[i], resp)]
         /\ arrival' = IF prev.tracked THEN Append(arrival, i) ELSE arrival
    /\ UNCHANGED << pc, cfg, rows, frame, events, arrived, termVars,
                    exitStatus, quit, countVars, waited, quitInFlight,
                    probe, qstamp, prev >>

\* variant: the loop goes from the refresh straight to the input poll
JoinAllSkipDraw ==
    /\ pc = "join"
    /\ JoinReady(tasks)
    /\ rows' = Collect(tasks, arrival)
    /\ pc' = "poll"
    /\ UNCHANGED << cfg, tasks, arrival, frame, events, arrived, termVars,
                    exitStatus, quit, countVars, waited, quitInFlight,
                    probe, qstamp, prev >>

\* variant: a failed fetch fails the refresh and main returns the error
JoinAllFailFast ==
    /\ pc = "join"
    /\ JoinReady(tasks)
    /\ rows' = Collect(tasks, arrival)
    /\ IF \E i \in 1..Len(tasks) : TaskFailed(tasks[i])
       THEN ExitErr
       ELSE pc' = "draw" /\ UNCHANGED exitStatus
    /\ UNCHANGED << cfg, tasks, arrival, frame, events, arrived, termVars,
                    quit, countVars, waited, quitInFlight, probe, qstamp, prev >>

\* join_all(tasks).await resolves and refresh_portfolio returns
JoinAll ==
    /\ pc = "join"
    /\ JoinReady(tasks)
    /\ rows' = Collect(tasks, arrival)
    /\ pc' = "draw"
    /\ UNCHANGED << cfg, tasks, arrival, frame, events, arrived, termVars, exitStatus,
                    quit, countVars, waited, quitInFlight,
                    probe, qstamp, prev >>

\* term.draw(|f| draw_ui(f, &rows))?
Draw ==
    /\ pc = "draw"
    /\ drawCount' = drawCount + 1
    /\ \/ /\ frame' = draw_ui(rows)
          /\ pc' = "poll"
          /\ UNCHANGED exitStatus
       \/ /\ ExitErr
          /\ UNCHANGED frame
    /\ UNCHANGED << cfg, tasks, arrival, rows, events, arrived, termVars, quit,
                    tickCount, refreshCount, pollCount, waited, quitInFlight,
                    probe, qstamp, prev >>

\* the end of one iteration of the loop body: `rows` goes out of scope, the
\* Frame of the draw call and the resolved tasks are gone
EndIteration(target) ==
    IF target = "tick"
    THEN /\ rows' = <<>>
         /\ frame' = <<>>
         /\ tasks' = <<>>
         /\ arrival' = <<>>
         /\ prev' = IF prev.tracked THEN CallRecord ELSE prev
    ELSE UNCHANGED << rows, frame, tasks, arrival, prev >>

\* event::poll(Duration::from_millis(100))?
Poll ==
    /\ pc = "poll"
    /\ pollCount' = pollCount + 1
    /\ \/ /\ pc' = IF events # <<>> THEN "read" ELSE "tick"
          /\ EndIteration(pc')
          /\ UNCHANGED exitStatus
       \/ /\ ExitErr
          /\ UNCHANGED << rows, frame, tasks, arrival, prev >>
    /\ UNCHANGED << cfg, events, arrived, termVars, quit, tickCount,
                    refreshCount, drawCount, waited, quitInFlight,
                    probe, qstamp >>

\* variant: a quit key returns from main at once
ReadReturnTarget(ev) == IF IsQuitKey(ev) THEN "exit" ELSE "tick"

\* variant: the break is missing
ReadContinueTarget(ev) == "tick"

\* where main continues after event::read() delivered ev
ReadTarget(ev) == IF IsQuitKey(ev) THEN "restore" ELSE "tick"

\* variant: one iteration reads every queued event
ReadDrain ==
    /\ pc = "read"
    /\ \/ /\ events' = <<>>
          /\ quit' = \E k \in 1..Len(events) : IsQuitKey(events[k])
          /\ pc' = IF quit' THEN "restore" ELSE "tick"
          /\ EndIteration(pc')
          /\ UNCHANGED exitStatus
       \/ /\ ExitErr
          /\ UNCHANGED << events, quit, rows, frame, tasks, arrival, prev >>
    /\ UNCHANGED << cfg, arrived, termVars, countVars, waited,
                    quitInFlight, probe, qstamp >>

\* event::read()? and the quit test
Read ==
    /\ pc = "read"
    /\ \/ /\ events' = Tail(events)
          /\ quit' = IsQuitKey(Head(events))
          /\ pc' = ReadTarget(Head(events))
          /\ EndIteration(pc')
          /\ exitStatus' = IF pc' = "exit" THEN "ok" ELSE exitStatus
       \/ /\ ExitErr
          /\ UNCHANGED << events, quit, rows, frame, tasks, arrival, prev >>
    /\ UNCHANGED << cfg, arrived, termVars, countVars, waited,
                    quitInFlight,
                    probe, qstamp >>

\* restore_terminal(term)?: failAt names the step that fails (0: none)
RestoreTerminal ==
    /\ pc = "restore"
    /\ restoreCalls' = restoreCalls + 1
    /\ \E failAt \in 0..3 :
         /\ rawMode' = IF failAt = 1 THEN rawMode ELSE FALSE
         /\ altScreen' = IF failAt \in {1, 2} THEN altScreen ELSE FALSE
         /\ exitStatus' = IF failAt = 0 THEN "ok" ELSE "err"
    /\ pc' = "exit"
    /\ UNCHANGED << cfg, tasks, arrival, rows, frame, events, arrived, setup,
                    quit, countVars, waited, quitInFlight,
                    probe, qstamp, prev >>

\* the user (or the terminal) produces an input event
EventArrives ==
    /\ pc # "exit"
    /\ arrived < MaxEvents
    /\ \E ev \in Events :
         /\ events' = Append(events, ev)
         /\ quitInFlight' =
              (quitInFlight \/ (IsQuitKey(ev) /\ pc = "join" /\ ~JoinReady(tasks)))
         /\ qstamp' =
              IF IsQuitKey(ev) /\ ~qstamp.has
              THEN [has |-> TRUE, owed |-> Len(events) + 1]
              ELSE qstamp
    /\ arrived' = arrived + 1
    /\ UNCHANGED << pc, cfg, tasks, arrival, rows, frame, termVars,
                    exitStatus, quit, countVars, waited,
                    probe, prev >>

Next ==
    \/ LoadConfig
    \/ SetupTerminal
    \/ TimePasses
    \/ TimerTick
    \/ Spawn
    \/ TaskComplete
    \/ JoinAll
    \/ Draw
    \/ Poll
    \/ Read
    \/ RestoreTerminal
    \/ EventArrives

Spec == Init /\ [][Next]_vars

(* ------------------------ the dashboard, scheduled --------------------- *)
\* the timer fires, the runtime runs every spawned task to its end and main
\* takes its next step whenever it can
Fairness ==
    /\ WF_vars(TimerTick)
    /\ WF_vars(Spawn)
    /\ WF_vars(TaskComplete)
    /\ WF_vars(JoinAll)
    /\ WF_vars(Draw)
    /\ WF_vars(Poll)
    /\ WF_vars(Read)
    /\ WF_vars(RestoreTerminal)

SpecLive == Init /\ [][Next]_vars /\ Fairness

(* ------------- the dashboard left alone, with call history ------------- *)
\* no terminal event arrives; the previous call of refresh_portfolio is kept
InitHist ==
    /\ ProgramStart
    /\ probe = NoProbe
    /\ prev = NoCallYet

NextHist ==
    \/ LoadConfig
    \/ SetupTerminal
    \/ TimePasses
    \/ TimerTick
    \/ Spawn
    \/ TaskComplete
    \/ JoinAll
    \/ Draw
    \/ Poll

SpecHist == InitHist /\ [][NextHist]_vars

(* ----------------------- fetch_price on its own ------------------------ *)
\* descriptors of every kind, with and without an override endpoint
ProbeAssets ==
    { [kind |-> k, symbol |-> sy, quantity |-> 10, api |-> ap] :
        k \in {"Stock", "Crypto", "Commodity"}, sy \in {"ABC", "XYZ"},
        ap \in {"none", "https://prices.test/quote"} }

\* bodies an endpoint may answer with
WireBodies ==
    { Body("error", "", 0, 0), Body("flat_text", "", 0, 0) }
    \cup { Body("flat", "", p, 0) : p \in {5, 100} }
    \cup { Body(sh, sy, 0, 100) : sh \in {"nested", "nested_text"}, sy \in {"ABC", "XYZ"} }
    \cup { Body("both", sy, 5, 100) : sy \in {"ABC", "XYZ"} }

InitFetch ==
    /\ ProgramStart
    /\ \E a \in ProbeAssets : \E b \in WireBodies :
         probe = [state |-> "input", asset |-> a, resp |-> b, url |-> "",
                  result |-> Err, price |-> 0]
    /\ prev = Untracked

\* fetch_price(&c, &asset).await.unwrap_or(0.0) for the drawn input
FetchPriceCall ==
    /\ probe.state = "input"
    /\ probe' = [probe EXCEPT
                   !.state = "done",
                   !.url = ResolveUrl(probe.asset),
                   !.result = fetch_price(probe.asset, probe.resp),
                   !.price = unwrap_or(fetch_price(probe.asset, probe.resp), 0)]
    /\ UNCHANGED << pc, cfg, tasks, arrival, rows, frame, events, arrived,
                    termVars, exitStatus, quit, countVars, waited,
                    quitInFlight, qstamp, prev >>

NextFetch == FetchPriceCall

SpecFetch == InitFetch /\ [][NextFetch]_vars

(* ============================ properties =============================== *)
\* main holds the snapshot of the current iteration
SnapshotHeld == pc \in {"draw", "poll", "read"}

\* the price the fetch started for descriptor i produced, failure as 0.0
FetchedPrice(i) ==
    LET r == fetch_price(cfg[i], tasks[i].resp)
    IN  IF r.ok THEN r.val ELSE 0

SomeFailed == \E i \in 1..Len(tasks) : IsDone(tasks[i]) /\ TaskFailed(tasks[i])
SomeSucceeded == \E i \in 1..Len(tasks) : IsDone(tasks[i]) /\ ~TaskFailed(tasks[i])

\* C1: whatever the length N of the descriptor list and whichever fetches
\* fail, the snapshot refresh_portfolio returns has exactly N rows, on every
\* tick.
C1_RowCount == SnapshotHeld => Len(rows) = Len(cfg)

C1_Witness ==
    /\ pc = "draw"
    /\ tickCount = 2
    /\ Len(cfg) = 2
    /\ Len(rows) = 2
    /\ SomeFailed
    /\ SomeSucceeded

\* C2: in every completion order of the tasks, row i of the snapshot carries
\* descriptor i and the price produced by the fetch started for descriptor i.
C2_OrderByIndex ==
    SnapshotHeld =>
        /\ Len(tasks) = Len(cfg)
        /\ \A i \in 1..Len(cfg) :
             /\ i <= Len(rows)
             /\ rows[i] = [asset |-> cfg[i], price |-> FetchedPrice(i)]

C2_Witness ==
    /\ pc = "draw"
    /\ Len(cfg) = 2
    /\ cfg[1] # cfg[2]
    /\ arrival = <<2, 1>>
    /\ rows[1].price = 5
    /\ rows[2].price = 100

\* C3: a failed fetch gives its row the price 0.0 and nothing else: the
\* refresh still returns, and every other row has the price of its own fetch.
C3_FailureIsZero ==
    SnapshotHeld =>
        \A i \in 1..Len(tasks) :
            /\ i <= Len(rows)
            /\ IsDone(tasks[i])
            /\ TaskFailed(tasks[i]) => rows[i].price = 0
            /\ ~TaskFailed(tasks[i]) =>
                   rows[i].price = fetch_price(cfg[i], tasks[i].resp).val

C3_Witness ==
    /\ pc = "draw"
    /\ Len(cfg) = 2
    /\ tickCount = 2
    /\ TaskFailed(tasks[1])
    /\ rows[1].price = 0
    /\ rows[2].price = 5

\* C4: refresh_portfolio returns only when every task it spawned has
\* completed, so a draw never happens while a fetch of the tick is running
\* and always gets a full-length snapshot.
C4_Barrier ==
    SnapshotHeld =>
        /\ Len(tasks) = Len(cfg)
        /\ \A i \in 1..Len(tasks) : tasks[i].state = "done"
        /\ Len(rows) = Len(cfg)
        /\ pc # "draw" => Len(frame) = Len(cfg)

C4_Witness ==
    /\ pc = "poll"
    /\ drawCount = 2
    /\ Len(cfg) = 2
    /\ Len(frame) = 2
    /\ SomeFailed

\* C5: once a quit key has been observed the loop is over: no tick, refresh,
\* draw or poll happens any more, and main is on its way out.
C5_NoActivityAfterQuit ==
    [][quit => /\ quit'
               /\ pc' \in {"restore", "exit"}
               /\ UNCHANGED countVars]_vars

C5_Witness ==
    /\ quit
    /\ pc = "exit"
    /\ tickCount = 1
    /\ restoreCalls = 1

\* C6: on the quit path restore_terminal is called exactly once, and it is
\* only ever called after setup_terminal succeeded.
C6_RestoreOnce ==
    /\ restoreCalls <= 1
    /\ restoreCalls = 1 => setup = "ok"
    /\ (pc = "exit" /\ quit) => restoreCalls = 1

C6_Witness ==
    /\ pc = "exit"
    /\ quit
    /\ restoreCalls = 1
    /\ tickCount = 2

\* C7: on every exit path after raw mode was enabled, the error paths
\* included, restore_terminal runs before the process exits.
C7_RestoredOnEveryExit ==
    (pc = "exit" /\ (rawMode \/ altScreen)) => restoreCalls >= 1

\* C8: while Running the loop polls for input at the poll period, not once
\* per tick: it never lets two poll windows pass without a poll while it
\* waits for the next tick.
C8_PollsBetweenTicks ==
    (pc = "tick" /\ ~quit) => waited * PollWindowMs < 2 * PollWindowMs

\* C9: every tick triggers exactly one refresh and then exactly one draw of
\* that refresh's snapshot, and the poll of the tick starts after the draw;
\* the first refresh and draw precede the first poll.
C9_TickRefreshDrawPoll ==
    /\ pollCount <= drawCount
    /\ drawCount <= refreshCount
    /\ refreshCount <= tickCount
    /\ tickCount <= pollCount + 1
    /\ pc = "refresh" => refreshCount = tickCount - 1
    /\ pc \in {"join", "draw"} =>
           refreshCount = tickCount /\ drawCount = tickCount - 1
    /\ pc = "poll" =>
           /\ drawCount = tickCount
           /\ pollCount = tickCount - 1
           /\ Len(frame) = Len(rows)
           /\ \A i \in 1..Len(rows) :
                /\ frame[i].symbol = rows[i].asset.symbol
                /\ frame[i].price = rows[i].price
    /\ pc \in {"read", "tick"} => pollCount = tickCount

C9_Witness ==
    /\ pc = "poll"
    /\ tickCount = 2
    /\ pollCount = 1
    /\ drawCount = 2
    /\ Len(frame) = 2

\* C10: a quit key that arrives while fetches are in flight cancels none of
\* them: a running task stays until it is done, and the loop acts on the quit
\* only at the read of the poll that follows the refresh and its draw.
C10_NoMidRefreshCancel ==
    [][ /\ \A i \in 1..Len(tasks) :
             tasks[i].state = "running" =>
                 /\ Len(tasks') = Len(tasks)
                 /\ tasks'[i].asset = tasks[i].asset
                 /\ tasks'[i].state \in {"running", "done"}
        /\ (~quit /\ quit') =>
             /\ pc = "read"
             /\ drawCount = tickCount
             /\ Len(tasks) = Len(cfg)
             /\ \A i \in 1..Len(tasks) : tasks[i].state = "done" ]_vars

C10_Witness ==
    /\ quit
    /\ quitInFlight
    /\ pc = "exit"
    /\ Len(tasks) = 2
    /\ \A i \in 1..Len(tasks) : tasks[i].state = "done"

\* C11: while a fetch of the tick has not completed (so also when it never
\* does), refresh_portfolio has not returned: the frame of the tick is not
\* drawn, its poll is not made and the loop is not ShuttingDown, even with a
\* quit key waiting in the input queue.
C11_HungFetchStalls ==
    (\E i \in 1..Len(tasks) : tasks[i].state = "running") =>
        /\ pc = "join"
        /\ ~quit
        /\ restoreCalls = 0
        /\ drawCount = tickCount - 1
        /\ pollCount = tickCount - 1

C11_Witness ==
    /\ pc = "join"
    /\ tickCount = 2
    /\ Len(tasks) = 2
    /\ tasks[1].state = "done"
    /\ tasks[2].state = "running"
    /\ events # <<>>
    /\ Head(events) = "q"

\* C12: the loop leaves Running by the quit path only at a read that
\* delivers Key(q) or Key(Esc); any other event that is read, and a poll
\* that times out, send the loop back to the tick wait, still Running.
C12_OnlyQuitKeysQuit ==
    [][ /\ (~quit /\ quit') =>
             /\ pc = "read"
             /\ events # <<>>
             /\ Head(events) \in {"q", "esc"}
        /\ (pc # "restore" /\ pc' = "restore") => (pc = "read" /\ quit')
        /\ (Len(events') < Len(events) /\ Head(events) \in {"x", "mouse"}) =>
             (pc' = "tick" /\ ~quit')
        /\ (pollCount' # pollCount /\ events = <<>> /\ pc' # "exit") =>
             (pc' = "tick" /\ ~quit') ]_vars

C12_Witness ==
    /\ pc = "tick"
    /\ ~quit
    /\ tickCount = 2
    /\ arrived = 2
    /\ events = <<>>

RECURSIVE RequestsSent(_)
RequestsSent(ts) ==
    IF ts = <<>> THEN 0 ELSE Head(ts).sent + RequestsSent(Tail(ts))

\* C17: a refresh over N descriptors issues exactly N requests, one per
\* descriptor; a failed request is not retried within the tick.
C17_OneRequestPerDescriptor ==
    /\ \A i \in 1..Len(tasks) :
         tasks[i].sent = IF tasks[i].state = "done" THEN 1 ELSE 0
    /\ SnapshotHeld =>
         /\ Len(tasks) = Len(cfg)
         /\ RequestsSent(tasks) = Len(cfg)

C17_Witness ==
    /\ pc = "draw"
    /\ Len(cfg) = 2
    /\ RequestsSent(tasks) = 2
    /\ TaskFailed(tasks[1])
    /\ TaskFailed(tasks[2])

\* C18: the table body has exactly one row per snapshot entry, in snapshot
\* order, nothing filtered, sorted or merged; the row of a failed fetch is
\* drawn with price 0 and value 0.
C18_OneBodyRowPerEntry ==
    pc \in {"poll", "read"} =>
        /\ Len(frame) = Len(cfg)
        /\ \A i \in 1..Len(frame) :
             /\ frame[i].kind = cfg[i].kind
             /\ frame[i].symbol = cfg[i].symbol
             /\ frame[i].quantity = cfg[i].quantity
             /\ frame[i].price = rows[i].price
             /\ frame[i].value = rows[i].price * cfg[i].quantity
             /\ TaskFailed(tasks[i]) => (frame[i].price = 0 /\ frame[i].value = 0)

C18_Witness ==
    /\ pc = "poll"
    /\ Len(frame) = 2
    /\ TaskFailed(tasks[1])
    /\ frame[1].value = 0
    /\ frame[2].symbol = "XYZ"
    /\ frame[2].value = 200

\* C16: the decode path of fetch_price depends on the kind of the descriptor
\* only, with or without an override endpoint: Crypto is decoded with the
\* nested schema and fails on a flat body (price 0.0), Stock and Commodity
\* are decoded with the flat schema and fail on a nested body.
C16_DecodeByKind ==
    probe.state = "done" =>
        LET a == probe.asset
            b == probe.resp
            r == probe.result
        IN  /\ a.kind = "Crypto" =>
                 /\ r.ok <=> (b.shape \in {"nested", "both"} /\ b.sym = a.symbol)
                 /\ r.ok => r.val = b.quote
            /\ a.kind \in {"Stock", "Commodity"} =>
                 /\ r.ok <=> b.shape \in {"flat", "both"}
                 /\ r.ok => r.val = b.price
            /\ (a.kind = "Crypto" /\ b.shape = "flat") => probe.price = 0
            /\ a.api # "none" => probe.url = a.api

C16_Witness ==
    /\ probe.state = "done"
    /\ probe.asset.kind = "Crypto"
    /\ probe.asset.api # "none"
    /\ probe.resp.shape = "flat"
    /\ ~probe.result.ok
    /\ probe.price = 0

\* the responses the tasks of the current refresh received, by index
CurrentResps == [i \in 1..Len(tasks) |-> tasks[i].resp]

\* C13: a fetch failure is not fatal: whichever fetches fail, the refresh
\* returns a full snapshot to the draw, the loop stays Running, and the next
\* refresh again starts one fetch per descriptor, failed ones included.
C13_FailureNotFatal ==
    [][ /\ (pc = "join" /\ pc' # "join") =>
             /\ pc' = "draw"
             /\ Len(rows') = Len(cfg)
             /\ exitStatus' = "running"
             /\ ~quit'
        /\ (pc = "join" /\ tasks' # tasks) =>
             (pc' = "join" /\ exitStatus' = "running")
        /\ (pc = "draw" /\ pc' = "poll") => Len(frame') = Len(cfg)
        /\ (pc = "refresh" /\ pc' # "refresh") =>
             /\ pc' = "join"
             /\ Len(tasks') = Len(cfg)
             /\ \A i \in 1..Len(cfg) :
                  /\ tasks'[i].asset = cfg[i]
                  /\ tasks'[i].state = "running" ]_vars

C13_Witness ==
    /\ pc = "join"
    /\ tickCount = 2
    /\ prev.has
    /\ Len(cfg) = 2
    /\ prev.rows[1].price = 0
    /\ prev.rows[2].price = 0
    /\ tasks[1].state = "running"
    /\ tasks[2].state = "running"

\* C14: no price is carried over from an earlier tick: a descriptor whose
\* fetch succeeded on the previous tick and fails on this one has price 0.0
\* in this tick's snapshot and frame.
C14_NoPriceHistory ==
    (SnapshotHeld /\ prev.has) =>
        \A i \in 1..Len(cfg) :
            (prev.rows[i].price # 0 /\ TaskFailed(tasks[i])) =>
                /\ rows[i].price = 0
                /\ pc \in {"poll", "read"} => frame[i].price = 0

C14_Witness ==
    /\ pc = "poll"
    /\ tickCount = 2
    /\ Len(cfg) = 2
    /\ prev.rows[1].price = 5
    /\ TaskFailed(tasks[1])
    /\ frame[1].price = 0
    /\ frame[2].price = 100

\* C15: two calls of refresh_portfolio on the same descriptors in which every
\* fetch has the same outcome return the same snapshot, whatever the order
\* in which the tasks of either call completed.
C15_RefreshDeterministic ==
    (SnapshotHeld /\ prev.has /\ prev.resps = CurrentResps) => rows = prev.rows

C15_Witness ==
    /\ pc = "draw"
    /\ prev.has
    /\ Len(cfg) = 2
    /\ prev.resps = CurrentResps
    /\ prev.order = <<1, 2>>
    /\ arrival = <<2, 1>>
    /\ TaskFailed(tasks[1])
    /\ rows = prev.rows

\* position of the first quit key in the input queue (0: there is none)
FirstQuit ==
    IF \E k \in 1..Len(events) : events[k] \in {"q", "esc"}
    THEN CHOOSE k \in 1..Len(events) :
             /\ events[k] \in {"q", "esc"}
             /\ \A j \in 1..(k - 1) : events[j] \notin {"q", "esc"}
    ELSE 0

\* the loop runs, a quit key is queued, and the ticks explored suffice for
\* the reads that must precede its own
QuitWithinReach ==
    /\ setup = "ok"
    /\ pc \in {"tick", "refresh", "join", "draw", "poll", "read"}
    /\ FirstQuit > 0
    /\ tickCount + FirstQuit - (IF pc = "tick" THEN 0 ELSE 1) <= MaxTicks

\* C19: when the timer keeps firing, every fetch completes and neither draw
\* nor the input calls fail, a quit key queued behind finitely many events
\* is eventually acted on: the loop is left and restore_terminal is called.
C19_QuitEventuallyRestores ==
    QuitWithinReach ~>
        (pc = "exit" /\ ((quit /\ restoreCalls = 1) \/ (~quit /\ exitStatus = "err")))

C19_Witness ==
    /\ pc = "exit"
    /\ quit
    /\ restoreCalls = 1
    /\ exitStatus = "ok"
    /\ arrived = 2
    /\ events = <<>>
    /\ ~rawMode

\* C20 as stated: an iteration removes at most one event, and only after the
\* poll reported one; a quit key queued behind k events is acted on no
\* earlier than the (k+1)-th tick after it was queued.
C20_AsStated ==
    /\ arrived - Len(events) <= pollCount
    /\ pc = "read" => events # <<>>
    /\ quit => (qstamp.has /\ qstamp.owed = 0)

\* C20: an iteration removes at most one event, and only after the poll
\* reported one; a quit key queued behind k events is acted on no earlier
\* than the k-th tick after it was queued (the read of the iteration in
\* progress counts when the key arrives before it).
C20_OneEventPerIteration ==
    /\ arrived - Len(events) <= pollCount
    /\ pc = "read" => events # <<>>
    /\ quit => (qstamp.has /\ qstamp.owed <= 1)

C20_Witness ==
    /\ quit
    /\ arrived = 2
    /\ events = <<>>
    /\ tickCount = 2
    /\ qstamp.owed = 1

====
